---- MODULE Spec2Model ----
(***************************************************************************)
(* The API gateway (gateway/main.py, gateway/auth.py) as a state machine:  *)
(* a fixed set of connection slots, each carrying one inbound request      *)
(* through authentication, forwarding and error translation.               *)
(***************************************************************************)
EXTENDS Integers, Sequences, FiniteSets, TLC

(* ------------------------------ bounds --------------------------------- *)

\* The clock runs from 0 to MaxTime (one unit = one minute).
MaxTime == 1

\* Explicit expires_delta values range over -1 .. MaxTTL minutes.
MaxTTL == 2

\* The number of courses added to the course store in a run.
MaxAdds == 2

(* ------------------------- Python value model -------------------------- *)
\* A Python value is a record tagged with its type.  A str keeps the parts
\* an f-string was built from, so that "the message includes X" is decidable.

NoneVal == [ty |-> "None"]

PyStr(parts) == [ty |-> "str", parts |-> parts]

PyList(items) == [ty |-> "list", items |-> items]

PyInt(n) == [ty |-> "int", n |-> n]

PyDict(d) == [ty |-> "dict", d |-> d]

PyNaN == [ty |-> "float", repr |-> "nan"]

Lit(s) == PyStr(<<s>>)

\* dict.get(key, default)
DictGet(d, key, default) == IF key \in DOMAIN d THEN d[key] ELSE default

\* Outcome of a Python call: a returned value or a raised exception.
Ret(v) == [kind |-> "return", value |-> v]

Raise(e) == [kind |-> "raise", exc |-> e]

HTTPException(status_code, detail) ==
    [cls |-> "HTTPException", status_code |-> status_code, detail |-> detail]

PlainException(cls) == [cls |-> cls]

JSONResponse(content, status_code) ==
    [status_code |-> status_code, content |-> content]

(* --------------------------- service registry -------------------------- *)

SERVICES == [student |-> "http://localhost:8001", course |-> "http://localhost:8002"]

\* list(SERVICES.keys()), in insertion order
ServiceKeys == <<"student", "course">>

AllowedMethods == <<"GET", "POST", "PUT", "DELETE">>

(* ----------------------------- backend model --------------------------- *)
\* What the backend may answer to one outbound call: an HTTP response with a
\* status and a body, or a failure raised by the HTTP client.

BackendStatuses == {200, 204, 399, 400, 404, 500}

\* The shapes a response body can take.
BodyKinds == {"empty", "text", "obj_detail_str", "obj_detail_list", "obj_other",
              "list", "string", "nan"}

\* response.text
ResponseText(body) ==
    CASE body = "empty"           -> ""
      [] body = "text"            -> "<html>oops</html>"
      [] body = "obj_detail_str"  -> "{\"detail\": \"Course not found\"}"
      [] body = "obj_detail_list" -> "{\"detail\": [{\"loc\": \"body\"}]}"
      [] body = "obj_other"       -> "{\"id\": 1}"
      [] body = "list"            -> "[{\"id\": 1}]"
      [] body = "string"          -> "\"ok\""
      [] body = "nan"             -> "NaN"

\* response.json(): json.loads of the body; it accepts the literal NaN and
\* raises on an empty or non-JSON body.
ResponseJson(body) ==
    CASE body = "empty"           -> Raise(PlainException("JSONDecodeError"))
      [] body = "text"            -> Raise(PlainException("JSONDecodeError"))
      [] body = "obj_detail_str"  -> Ret(PyDict([detail |-> Lit("Course not found")]))
      [] body = "obj_detail_list" -> Ret(PyDict([detail |-> PyList(<<"loc: body">>)]))
      [] body = "obj_other"       -> Ret(PyDict([id |-> PyInt(1)]))
      [] body = "list"            -> Ret(PyList(<<"id: 1">>))
      [] body = "string"          -> Ret(Lit("ok"))
      [] body = "nan"             -> Ret(PyNaN)

\* The exception classes the HTTP client (or anything else inside the try
\* block) can raise, each with the classes it is an instance of.
ClientExceptions == {"ConnectTimeout", "ReadTimeout", "ConnectError", "ReadError",
                     "RemoteProtocolError", "TooManyRedirects", "InvalidURL",
                     "RuntimeError"}

Bases(cls) ==
    CASE cls = "ConnectTimeout"      -> {"ConnectTimeout", "TimeoutException", "RequestError", "Exception"}
      [] cls = "ReadTimeout"         -> {"ReadTimeout", "TimeoutException", "RequestError", "Exception"}
      [] cls = "ConnectError"        -> {"ConnectError", "RequestError", "Exception"}
      [] cls = "ReadError"           -> {"ReadError", "RequestError", "Exception"}
      [] cls = "RemoteProtocolError" -> {"RemoteProtocolError", "RequestError", "Exception"}
      [] cls = "TooManyRedirects"    -> {"TooManyRedirects", "RequestError", "Exception"}
      [] cls = "HTTPException"       -> {"HTTPException", "Exception"}
      [] OTHER                       -> {cls, "Exception"}

BackendReplies ==
    [kind : {"response"}, status_code : BackendStatuses, body : BodyKinds]
    \cup [kind : {"exception"}, cls : ClientExceptions]

(* --------------------- forward_request (main.py) ----------------------- *)

\* `service not in SERVICES` is false
ServiceRegistered(service) == service \in DOMAIN SERVICES

\* ServiceNotFound listing the registry's addresses instead of its names.
ServiceNotFound_ListsAddresses(service) ==
    HTTPException(404, PyDict([
        error |-> Lit("Service Not Found"),
        message |-> PyStr(<<"The requested service '", service, "' is not available">>),
        available_services |-> PyList(<<SERVICES["student"], SERVICES["course"]>>)]))

\* The 404 raised for a service that is not in the registry.
ServiceNotFound(service) ==
    HTTPException(404, PyDict([
        error |-> Lit("Service Not Found"),
        message |-> PyStr(<<"The requested service '", service, "' is not available">>),
        available_services |-> PyList(ServiceKeys)]))

\* url = f"{SERVICES[service]}{path}"
Url(service, path) == PyStr(<<SERVICES[service], path>>)

\* The if/elif chain has a client call for these methods only.
MethodDispatched(method) == method \in {"GET", "POST", "PUT", "DELETE"}

\* The 405 raised in the else branch of the method dispatch.
MethodNotAllowed(method) ==
    HTTPException(405, PyDict([
        error |-> Lit("Method Not Allowed"),
        message |-> PyStr(<<"HTTP method '", method, "' is not supported">>),
        allowed_methods |-> PyList(AllowedMethods)]))

\* error_detail of a response with status >= 400
ErrorDetail(body) ==
    IF ResponseJson(body).kind = "return"
    THEN ResponseJson(body).value
    ELSE PyDict([detail |-> IF ResponseText(body) # "" THEN Lit(ResponseText(body))
                                                        ELSE Lit("Unknown error")])

\* response_data of a response with status < 400
ResponseData(body) ==
    IF ResponseText(body) # ""
    THEN IF ResponseJson(body).kind = "return"
         THEN ResponseJson(body).value
         ELSE PyDict([raw |-> Lit(ResponseText(body))])
    ELSE NoneVal

\* JSONResponse renders its content with allow_nan=False.
Renderable(content) == content.ty # "float"

\* The part of the try block that follows the client call.
HandleResponse(service, path, status_code, body) ==
    IF status_code >= 400
    THEN IF ErrorDetail(body).ty = "dict"
         THEN Raise(HTTPException(status_code, PyDict([
                  error |-> PyStr(<<"Service Error (", ToString(status_code), ")">>),
                  message |-> DictGet(ErrorDetail(body).d, "detail",
                                      Lit("An error occurred in the microservice")),
                  service |-> Lit(service),
                  path |-> Lit(path)])))
         ELSE Raise(PlainException("AttributeError"))
    ELSE IF Renderable(ResponseData(body))
         THEN Ret(JSONResponse(ResponseData(body), status_code))
         ELSE Raise(PlainException("ValueError"))

\* The except clauses with `except Exception` placed before `except HTTPException`.
ExceptClauses_BroadFirst ==
    <<"TimeoutException", "ConnectError", "RequestError", "Exception", "HTTPException">>

\* The except clauses with `except httpx.RequestError` placed first.
ExceptClauses_RequestErrorFirst ==
    <<"RequestError", "TimeoutException", "ConnectError", "HTTPException", "Exception">>

\* The except clauses of the try block, in source order.
ExceptClauses == <<"TimeoutException", "ConnectError", "RequestError", "HTTPException", "Exception">>

\* The first except clause the exception is an instance of.
MatchingClause(exc) ==
    LET i == CHOOSE k \in 1..Len(ExceptClauses) :
                 /\ ExceptClauses[k] \in Bases(exc.cls)
                 /\ \A j \in 1..(k-1) : ExceptClauses[j] \notin Bases(exc.cls)
    IN ExceptClauses[i]

\* What the matching except clause raises.
ExceptHandler(clause, exc, service, path) ==
    CASE clause = "TimeoutException" ->
            HTTPException(504, PyDict([
                error |-> Lit("Gateway Timeout"),
                message |-> PyStr(<<"The ", service, " service did not respond in time">>),
                service |-> Lit(service),
                timeout |-> Lit("30 seconds")]))
      [] clause = "ConnectError" ->
            HTTPException(503, PyDict([
                error |-> Lit("Service Unavailable"),
                message |-> PyStr(<<"Unable to connect to ", service,
                                   " service. Please check if the service is running.">>),
                service |-> Lit(service),
                url |-> Url(service, path)]))
      [] clause = "RequestError" ->
            HTTPException(502, PyDict([
                error |-> Lit("Bad Gateway"),
                message |-> PyStr(<<"Error communicating with ", service, " service">>),
                service |-> Lit(service),
                error_details |-> PyStr(<<"str(e)", exc.cls>>)]))
      [] clause = "HTTPException" -> exc
      [] clause = "Exception" ->
            HTTPException(500, PyDict([
                error |-> Lit("Internal Server Error"),
                message |-> Lit("An unexpected error occurred while processing your request"),
                service |-> Lit(service)]))

\* The try/except around the client call: a returned response passes, a raised
\* exception goes through the matching except clause.
TryBlock(result, service, path) ==
    IF result.kind = "return"
    THEN result
    ELSE Raise(ExceptHandler(MatchingClause(result.exc), result.exc, service, path))

\* forward_request up to its suspension point: it either ends at once or has
\* one outbound call to send.
ForwardBegin(service, path, method) ==
    IF ~ServiceRegistered(service)
    THEN [step |-> "end", outcome |-> Raise(ServiceNotFound(service))]
    ELSE IF ~MethodDispatched(method)
         THEN [step |-> "end",
               outcome |-> TryBlock(Raise(MethodNotAllowed(method)), service, path)]
         ELSE [step |-> "send", outcome |-> NoneVal]

\* forward_request retrying its call after a timeout.
ResendOnTimeout(reply) ==
    reply.kind = "exception" /\ "TimeoutException" \in Bases(reply.cls)

\* Whether forward_request sends the call again after the backend's reply:
\* every branch after the client call returns or raises.
ResendAfter(reply) == FALSE

\* forward_request from the backend's reply to its own result.
ForwardEnd(service, path, method, reply) ==
    TryBlock(IF reply.kind = "exception"
             THEN Raise(PlainException(reply.cls))
             ELSE HandleResponse(service, path, reply.status_code, reply.body),
             service, path)

(* ----------------------- credentials (auth.py) -------------------------- *)

SECRET_KEY == "your-secret-key-change-this-in-production"

ACCESS_TOKEN_EXPIRE_MINUTES == 30

\* A password-like str: the characters typed, or a bcrypt hash string.
Raw(s) == <<"raw", s>>

\* ctx.hash(s): the bcrypt hash string of s
BcryptHash(s) == <<"$2b$", s>>

\* The password each registry entry is created from.
RegistryPassword == [admin |-> "admin123", user |-> "user123"]

\* USERS_DB before _init_users_db has run
EmptyUsersDb == [u \in {} |-> NoneVal]

\* USERS_DB as _init_users_db leaves it: hashed entries when hashing works,
\* the plain-text fallback entries when it raised.
InitUsersDb(hashing_works) ==
    [u \in {"admin", "user"} |->
        [username |-> u,
         hashed_password |-> IF hashing_works THEN BcryptHash(RegistryPassword[u])
                                              ELSE Raw(RegistryPassword[u]),
         role |-> u]]

\* The initialisation run on every call, the flag ignored.
LazyInit_Unguarded(initialized, db, hashing_works) == InitUsersDb(hashing_works)

\* The registry after the guarded call of _init_users_db: initialised on the
\* first use, left as it is afterwards.
LazyInit(initialized, db, hashing_works) ==
    IF initialized THEN db ELSE InitUsersDb(hashing_works)

\* The warning events the guarded call of _init_users_db emits: one, when it
\* runs and falls back to the plain-text entries.
InitWarnings(initialized, hashing_works) ==
    IF ~initialized /\ ~hashing_works THEN 1 ELSE 0

\* get_pwd_context().verify(plain, hashed): raises when the stored value is
\* no bcrypt hash; a hash string is never the pre-image of a stored hash.
VerifyPassword(plain_password, hashed_password) ==
    IF hashed_password[1] # "$2b$"
    THEN Raise(PlainException("UnknownHashError"))
    ELSE Ret(plain_password = Raw(hashed_password[2]))

\* authenticate_user after the registry has been initialised
AuthenticateUser(db, username, password) ==
    IF username \notin DOMAIN db
    THEN Ret(NoneVal)
    ELSE LET user == db[username]
             principal == [username |-> user.username, role |-> user.role]
         IN IF user.hashed_password = password
            THEN Ret(principal)
            ELSE LET v == VerifyPassword(password, user.hashed_password)
                 IN IF v.kind = "raise" THEN v
                    ELSE IF ~v.value THEN Ret(NoneVal)
                    ELSE Ret(principal)

(* -------------------------- tokens (auth.py) --------------------------- *)

\* jwt.encode: the claims signed with the key
JwtEncode(claims, key) == [kind |-> "jwt", claims |-> claims, key |-> key]

MalformedToken == [kind |-> "malformed"]

\* The exp check with its comparison turned around.
TokenExpired_Inverted(exp, now_) == exp > now_

\* The exp check of jwt.decode
TokenExpired(exp, now_) == exp < now_

\* jwt.decode(token, key): the claims, or a JWTError
JwtDecode(token, key, now_) ==
    IF token.kind # "jwt" THEN Raise(PlainException("JWTError"))
    ELSE IF token.key # key THEN Raise(PlainException("JWTError"))
    ELSE IF "exp" \in DOMAIN token.claims /\ TokenExpired(token.claims.exp, now_)
         THEN Raise(PlainException("ExpiredSignatureError"))
    ELSE Ret(token.claims)

\* `if expires_delta:` - a given, non-zero timedelta
DeltaTruthy(expires_delta) == expires_delta.given /\ expires_delta.minutes # 0

\* create_access_token(data, expires_delta) at time now_
CreateAccessToken(data, expires_delta, now_) ==
    LET expire == IF DeltaTruthy(expires_delta)
                  THEN now_ + expires_delta.minutes
                  ELSE now_ + ACCESS_TOKEN_EXPIRE_MINUTES
    IN JwtEncode([exp |-> expire] @@ data, SECRET_KEY)

\* A detail that names the failure when the token has expired.
AuthErrorDetail_Leaky(reason) ==
    IF reason = "ExpiredSignatureError" THEN Lit("Token has expired")
    ELSE Lit("Could not validate credentials")

\* The detail of credentials_exception, whatever made verification fail.
AuthErrorDetail(reason) == Lit("Could not validate credentials")

CredentialsException(reason) == HTTPException(401, AuthErrorDetail(reason))

\* security = HTTPBearer(): the bearer token of the Authorization header, or
\* the framework's own rejection when there is none.
HTTPBearer(header, reject_status) ==
    CASE header.kind = "missing" ->
            Raise(HTTPException(reject_status, Lit("Not authenticated")))
      [] header.kind = "other_scheme" ->
            Raise(HTTPException(reject_status, Lit("Invalid authentication credentials")))
      [] header.kind = "bearer" -> Ret(header.token)

\* get_current_user taking the principal from the token's claims, the
\* registry not consulted.
GetCurrentUser_TrustsToken(token, db, now_) ==
    LET decoded == JwtDecode(token, SECRET_KEY, now_)
    IN IF decoded.kind = "raise"
       THEN Raise(CredentialsException(decoded.exc.cls))
       ELSE IF "sub" \notin DOMAIN decoded.value
            THEN Raise(CredentialsException("no_subject"))
       ELSE Ret([username |-> decoded.value.sub, role |-> decoded.value.role])

\* get_current_user(credentials) against the registry db at time now_
GetCurrentUser(token, db, now_) ==
    LET decoded == JwtDecode(token, SECRET_KEY, now_)
    IN IF decoded.kind = "raise"
       THEN Raise(CredentialsException(decoded.exc.cls))
       ELSE IF "sub" \notin DOMAIN decoded.value
            THEN Raise(CredentialsException("no_subject"))
       ELSE IF decoded.value.sub \notin DOMAIN db
            THEN Raise(CredentialsException("unknown_user"))
       ELSE Ret([username |-> db[decoded.value.sub].username,
                 role |-> db[decoded.value.sub].role])

\* The dependency chain of a protected route:
\* HTTPBearer -> get_current_user -> get_current_active_user
GetCurrentActiveUser(header, reject_status, db, now_) ==
    LET credentials == HTTPBearer(header, reject_status)
    IN IF credentials.kind = "raise" THEN credentials
       ELSE GetCurrentUser(credentials.value, db, now_)

(* --------------------- exception handlers (main.py) -------------------- *)

\* http_exception_handler
HttpExceptionHandler(exc, gw_path) ==
    JSONResponse(
        PyDict([error |-> IF exc.detail.ty = "dict"
                          THEN DictGet(exc.detail.d, "error", Lit("Error"))
                          ELSE Lit("Error"),
                message |-> IF exc.detail.ty = "dict"
                            THEN DictGet(exc.detail.d, "message", exc.detail)
                            ELSE exc.detail,
                status_code |-> PyInt(exc.status_code),
                path |-> Lit(gw_path)]),
        exc.status_code)

\* general_exception_handler
GeneralExceptionHandler(gw_path) ==
    JSONResponse(
        PyDict([error |-> Lit("Internal Server Error"),
                message |-> Lit("An unexpected error occurred"),
                status_code |-> PyInt(500),
                path |-> Lit(gw_path)]),
        500)

(* ------------------- the middleware (middleware.py) -------------------- *)

\* call_next(request) as LoggingMiddleware sees it: the handler's response, the
\* response http_exception_handler makes of an HTTPException (the exception
\* middleware sits inside the logging middleware), or any other exception.
CallNext(outcome, gw_path) ==
    IF outcome.kind = "return" THEN outcome
    ELSE IF outcome.exc.cls = "HTTPException"
         THEN Ret(HttpExceptionHandler(outcome.exc, gw_path))
         ELSE outcome

\* dispatch answering a fault itself instead of re-raising it.
Dispatch_Swallows(downstream) ==
    IF downstream.kind = "raise"
    THEN Ret(JSONResponse(PyDict([detail |-> Lit(downstream.exc.cls)]), 500))
    ELSE Ret(downstream.value)

\* LoggingMiddleware.dispatch: what it returns or raises for what call_next
\* returned or raised.
Dispatch(downstream) ==
    IF downstream.kind = "raise"
    THEN Raise(downstream.exc)
    ELSE Ret(downstream.value)

\* The entry logged when the request arrives.
RequestEntry(route) ==
    [level |-> "info", event |-> "Request",
     method |-> route.gw_method, path |-> route.gw_path]

\* The entry logged when call_next has returned a response.
ResponseEntry(route, response, process_time) ==
    [level |-> "info", event |-> "Response",
     method |-> route.gw_method, path |-> route.gw_path,
     status_code |-> response.status_code, process_time |-> process_time]

\* The entry logged when call_next has raised.
ExceptionEntry(route, exc, process_time) ==
    [level |-> "error", event |-> "Exception",
     method |-> route.gw_method, path |-> route.gw_path,
     error |-> exc.cls, process_time |-> process_time]

\* dispatch logging nothing when call_next raises.
DispatchLog_SilentOnFault(route, downstream, process_time) ==
    IF downstream.kind = "raise"
    THEN <<RequestEntry(route)>>
    ELSE <<RequestEntry(route), ResponseEntry(route, downstream.value, process_time)>>

\* The entries dispatch has logged, in order, once call_next has finished.
DispatchLog(route, downstream, process_time) ==
    IF downstream.kind = "raise"
    THEN <<RequestEntry(route), ExceptionEntry(route, downstream.exc, process_time)>>
    ELSE <<RequestEntry(route), ResponseEntry(route, downstream.value, process_time)>>

\* The server-error layer outside the middleware: general_exception_handler
\* answers an exception that got this far.
ServerError(result, gw_path) ==
    IF result.kind = "raise" THEN GeneralExceptionHandler(gw_path) ELSE result.value

\* The response the application sends for the outcome of a route handler.
Respond(outcome, gw_path) ==
    ServerError(Dispatch(CallNext(outcome, gw_path)), gw_path)

(* ------------------------- routes (main.py) ---------------------------- *)

ItemIds == {"1"}

LoginRoute ==
    [kind |-> "login", gw_method |-> "POST", gw_path |-> "/gateway/auth/login",
     service |-> "-", path |-> "-", method |-> "-", has_body |-> TRUE]

MeRoute ==
    [kind |-> "me", gw_method |-> "GET", gw_path |-> "/gateway/auth/me",
     service |-> "-", path |-> "-", method |-> "-", has_body |-> FALSE]

\* The five routes of one resource: list, create, get, update, delete.
ResourceRoutes(service, plural) ==
    {[kind |-> "forward", gw_method |-> m, gw_path |-> "/gateway/" \o plural,
      service |-> service, path |-> "/api/" \o plural, method |-> m,
      has_body |-> (m = "POST")] : m \in {"GET", "POST"}}
    \cup
    {[kind |-> "forward", gw_method |-> m, gw_path |-> "/gateway/" \o plural \o "/" \o i,
      service |-> service, path |-> "/api/" \o plural \o "/" \o i, method |-> m,
      has_body |-> (m = "PUT")] : m \in {"GET", "PUT", "DELETE"}, i \in ItemIds}

StudentRoutes == ResourceRoutes("student", "students")

CourseRoutes == ResourceRoutes("course", "courses")

ProtectedRoutes == {MeRoute} \cup StudentRoutes \cup CourseRoutes

\* The routes requests are drawn from: both services, with and without a
\* request body, with and without an item id.
RequestedRoutes ==
    {MeRoute}
    \cup {r \in StudentRoutes : r.method \in {"GET", "POST"} /\ r.path = "/api/students"}
    \cup {r \in CourseRoutes : r.method = "DELETE" /\ r.path # "/api/courses"}

\* login(login_data): the handler of POST /gateway/auth/login, given what
\* authenticate_user produced
LoginHandler(auth, now_) ==
    IF auth.kind = "raise" THEN auth
    ELSE IF auth.value = NoneVal
         THEN Raise(HTTPException(401, PyDict([
                  error |-> Lit("Authentication Failed"),
                  message |-> Lit("Invalid username or password")])))
    ELSE Ret(JSONResponse(
             PyDict([access_token |-> CreateAccessToken(
                         [sub |-> auth.value.username, role |-> auth.value.role],
                         [given |-> TRUE, minutes |-> ACCESS_TOKEN_EXPIRE_MINUTES], now_),
                     token_type |-> Lit("bearer"),
                     expires_in |-> PyInt(ACCESS_TOKEN_EXPIRE_MINUTES * 60),
                     user |-> PyDict([username |-> Lit(auth.value.username),
                                      role |-> Lit(auth.value.role)])]),
             200))

\* get_current_user_info: the handler of GET /gateway/auth/me
MeHandler(current_user) ==
    Ret(JSONResponse(PyDict([username |-> Lit(current_user.username),
                             role |-> Lit(current_user.role)]), 200))

(* ------------- the course store (course-service/data_service.py) -------- *)

\* The fields of CourseUpdate: what an update can set. Course has them and id.
UpdateFields == {"name", "code", "credits", "instructor", "description"}

\* CourseMockDataService.__init__: the three courses the store starts with
InitialCourses ==
    <<[id |-> 1, name |-> Lit("Introduction to Computer Science"), code |-> Lit("CS101"),
       credits |-> PyInt(3), instructor |-> Lit("Dr. Smith"),
       description |-> Lit("Basic concepts of computer science")],
      [id |-> 2, name |-> Lit("Data Structures and Algorithms"), code |-> Lit("CS201"),
       credits |-> PyInt(4), instructor |-> Lit("Dr. Johnson"),
       description |-> Lit("Advanced data structures and algorithm design")],
      [id |-> 3, name |-> Lit("Database Systems"), code |-> Lit("CS301"),
       credits |-> PyInt(3), instructor |-> Lit("Dr. Williams"),
       description |-> Lit("Relational database design and SQL")]>>

\* self.next_id as __init__ sets it
InitialNextId == 4

\* The positions of the courses with the given id, in list order.
Positions(courses_, course_id) ==
    {i \in 1..Len(courses_) : courses_[i].id = course_id}

\* The position of the course get_course_by_id returns: the first match, or 0
\* when next(...) falls back to None.
FirstPosition(courses_, course_id) ==
    IF Positions(courses_, course_id) = {} THEN 0
    ELSE CHOOSE i \in Positions(courses_, course_id) :
             \A j \in Positions(courses_, course_id) : i <= j

\* get_course_by_id(course_id)
GetCourseById(courses_, course_id) ==
    IF FirstPosition(courses_, course_id) = 0 THEN NoneVal
    ELSE courses_[FirstPosition(courses_, course_id)]

\* add_course numbering the new course by the length of the list.
AddCourse_CountsCourses(courses_, next_id_, course_data) ==
    LET new_course == [id |-> Len(courses_) + 1] @@ course_data
    IN [courses |-> Append(courses_, new_course), next_id |-> next_id_ + 1,
        result |-> new_course]

\* add_course(course_data): the store afterwards and the course returned
AddCourse(courses_, next_id_, course_data) ==
    LET new_course == [id |-> next_id_] @@ course_data
    IN [courses |-> Append(courses_, new_course), next_id |-> next_id_ + 1,
        result |-> new_course]

\* course_data.model_dump(exclude_unset=True) of a CourseUpdate: the fields the
\* request set, each with its value (an explicit null included).
DumpSet(course_data) == course_data.fields_set

\* The setattr loop over the dumped fields.
SetAttrs(course, update_data) ==
    [f \in DOMAIN course |-> IF f \in DOMAIN update_data THEN update_data[f] ELSE course[f]]

\* update_course dumping its data without exclude_unset: every field, None
\* where the request left it unset.
UpdateCourse_DumpsAll(courses_, course_id, course_data) ==
    LET i == FirstPosition(courses_, course_id)
        dump == [f \in UpdateFields |->
                    IF f \in DOMAIN course_data.fields_set
                    THEN course_data.fields_set[f] ELSE NoneVal]
    IN IF i = 0
       THEN [courses |-> courses_, result |-> NoneVal]
       ELSE [courses |-> [courses_ EXCEPT ![i] = SetAttrs(courses_[i], dump)],
             result |-> SetAttrs(courses_[i], dump)]

\* update_course(course_id, course_data): the store afterwards and the course
\* returned, or None
UpdateCourse(courses_, course_id, course_data) ==
    LET i == FirstPosition(courses_, course_id)
    IN IF i = 0
       THEN [courses |-> courses_, result |-> NoneVal]
       ELSE [courses |-> [courses_ EXCEPT ![i] = SetAttrs(courses_[i], DumpSet(course_data))],
             result |-> SetAttrs(courses_[i], DumpSet(course_data))]

\* list.remove of the element at position i
RemoveAt(courses_, i) ==
    [j \in 1..(Len(courses_) - 1) |-> IF j < i THEN courses_[j] ELSE courses_[j + 1]]

\* delete_course(course_id): the store afterwards and True or False
DeleteCourse(courses_, course_id) ==
    LET i == FirstPosition(courses_, course_id)
    IN IF i = 0
       THEN [courses |-> courses_, result |-> FALSE]
       ELSE [courses |-> RemoveAt(courses_, i), result |-> TRUE]

(* ---------------- the course routes (course-service/main.py) ------------ *)

CourseNotFound == Raise(HTTPException(404, Lit("Course not found")))

\* create_course: POST /api/courses
CreateCourseHandler(new_course) == Ret([status_code |-> 201, content |-> new_course])

\* update_course: PUT /api/courses/{course_id}
UpdateCourseHandler(updated_course) ==
    IF updated_course = NoneVal THEN CourseNotFound
    ELSE Ret([status_code |-> 200, content |-> updated_course])

\* delete_course: DELETE /api/courses/{course_id}
DeleteCourseHandler(success) ==
    IF ~success THEN CourseNotFound
    ELSE Ret([status_code |-> 204, content |-> NoneVal])

(* ------------------------------- state --------------------------------- *)

VARIABLES
    now,                   \* the clock (datetime.utcnow), in minutes
    USERS_DB,              \* auth.USERS_DB
    users_db_initialized,  \* auth._users_db_initialized
    reject_status,         \* status HTTPBearer answers with when it rejects
    conn,                  \* the request each connection slot carries
    issued,                \* the last token create_access_token was asked for
    warnings,              \* the warning events emitted so far (warnings.warn)
    courses,               \* CourseMockDataService.courses
    next_id,               \* CourseMockDataService.next_id
    freed,                 \* history: the ids delete_course has removed
    call                   \* the last call of a course route and its answer

\* The state of the course service, a process of its own.
courseVars == <<courses, next_id, freed, call>>

\* The state of the gateway.
gatewayVars == <<now, USERS_DB, users_db_initialized, reject_status, conn, issued, warnings>>

vars == <<now, USERS_DB, users_db_initialized, reject_status, conn, issued, warnings,
          courses, next_id, freed, call>>

Slots == {"c1", "c2"}

Idle ==
    [pc |-> "idle", route |-> NoneVal, input |-> NoneVal, auth |-> NoneVal,
     calls |-> 0, reply |-> NoneVal, outcome |-> NoneVal, resp |-> NoneVal, at |-> 0,
     passed |-> NoneVal, log |-> <<>>]

\* A request that has been answered: `at` is the start_time of dispatch,
\* `passed` what dispatch returned or raised, `log` what it has logged.
Done(route, input, auth, calls, reply, outcome, at) ==
    [pc |-> "done", route |-> route, input |-> input, auth |-> auth,
     calls |-> calls, reply |-> reply, outcome |-> outcome,
     resp |-> Respond(outcome, route.gw_path), at |-> at,
     passed |-> Dispatch(CallNext(outcome, route.gw_path)),
     log |-> DispatchLog(route, CallNext(outcome, route.gw_path), now - at)]

\* A request suspended in its one outbound call.
Awaiting(route, input, auth, calls, reply, at) ==
    [pc |-> "awaiting", route |-> route, input |-> input, auth |-> auth,
     calls |-> calls, reply |-> reply, outcome |-> NoneVal, resp |-> NoneVal, at |-> at,
     passed |-> NoneVal, log |-> <<RequestEntry(route)>>]

Init ==
    /\ now = 0
    /\ USERS_DB = EmptyUsersDb
    /\ users_db_initialized = FALSE
    /\ reject_status \in {401, 403}
    /\ conn = [c \in Slots |-> Idle]
    /\ issued = NoneVal
    /\ warnings = 0
    /\ courses = InitialCourses
    /\ next_id = InitialNextId
    /\ freed = {}
    /\ call = NoneVal

(* ---------------------------- client inputs ---------------------------- *)

Usernames == {"admin", "user", "bob"}

Passwords == {Raw("admin123"), Raw("user123"), BcryptHash("admin123")}

\* Claims of the tokens clients present: issued by this process, kept from an
\* earlier run (exp 0), claiming a role the registry does not give the subject,
\* minted for an unknown subject, or lacking a subject.
ClientClaims ==
    [sub : {"admin"}, role : {"admin"}, exp : {0, ACCESS_TOKEN_EXPIRE_MINUTES}]
    \cup {[sub |-> "user", role |-> "admin", exp |-> ACCESS_TOKEN_EXPIRE_MINUTES]}
    \cup {[sub |-> "bob", role |-> "admin", exp |-> ACCESS_TOKEN_EXPIRE_MINUTES]}
    \cup {[role |-> "admin", exp |-> ACCESS_TOKEN_EXPIRE_MINUTES]}

ClientTokens ==
    {MalformedToken}
    \cup {JwtEncode(cl, SECRET_KEY) : cl \in ClientClaims}
    \cup {JwtEncode([sub |-> "admin", role |-> "admin", exp |-> ACCESS_TOKEN_EXPIRE_MINUTES],
                    "attacker-key")}

ClientHeaders ==
    {[kind |-> "missing"]}
    \cup {[kind |-> "bearer", token |-> t] : t \in ClientTokens}

\* The replies the backends give on the gateway's routes.
RouteReplies ==
    {[kind |-> "response", status_code |-> 200, body |-> "obj_other"],
     [kind |-> "response", status_code |-> 404, body |-> "obj_detail_str"],
     [kind |-> "exception", cls |-> "ConnectTimeout"],
     [kind |-> "exception", cls |-> "ConnectError"]}

(* ------------------------------- actions ------------------------------- *)

\* POST /gateway/auth/login: authenticate_user (with the lazy initialisation
\* of the registry on first use), then the token or the 401.
Login(c, username, password) ==
    /\ conn[c].pc = "idle"
    /\ \E hashing_works \in BOOLEAN :
         LET db == LazyInit(users_db_initialized, USERS_DB, hashing_works)
             auth == AuthenticateUser(db, username, password)
         IN /\ USERS_DB' = db
            /\ users_db_initialized' = TRUE
            /\ warnings' = warnings + InitWarnings(users_db_initialized, hashing_works)
            /\ conn' = [conn EXCEPT ![c] =
                    Done(LoginRoute, [username |-> username, password |-> password],
                         auth, 0, NoneVal, LoginHandler(auth, now), now)]
    /\ UNCHANGED <<now, reject_status, issued, courseVars>>

\* forward_request entered by a request: it ends at once or sends its call.
EnterForward(c, route, input, auth) ==
    LET b == ForwardBegin(route.service, route.path, route.method)
    IN conn' = [conn EXCEPT ![c] =
                   IF b.step = "end"
                   THEN Done(route, input, auth, 0, NoneVal, b.outcome, now)
                   ELSE Awaiting(route, input, auth, 1, NoneVal, now)]

\* A request on a protected route: the dependency chain, then the handler up
\* to its outbound call.
ProtectedRequest(c, route, header, body_ok) ==
    /\ conn[c].pc = "idle"
    /\ LET auth == GetCurrentActiveUser(header, reject_status, USERS_DB, now)
       IN IF auth.kind = "raise"
          THEN conn' = [conn EXCEPT ![c] = Done(route, header, auth, 0, NoneVal, auth, now)]
          ELSE IF route.kind = "me"
               THEN conn' = [conn EXCEPT ![c] =
                        Done(route, header, auth, 0, NoneVal, MeHandler(auth.value), now)]
          ELSE IF route.has_body /\ ~body_ok
               THEN conn' = [conn EXCEPT ![c] =
                        Done(route, header, auth, 0, NoneVal,
                             Raise(PlainException("JSONDecodeError")), now)]
          ELSE EnterForward(c, route, header, auth)
    /\ UNCHANGED <<now, USERS_DB, users_db_initialized, reject_status, issued, warnings, courseVars>>

\* The backend's reply reaches the suspended forward_request.
BackendReply(c, reply) ==
    /\ conn[c].pc = "awaiting"
    /\ LET r == conn[c]
       IN conn' = [conn EXCEPT ![c] =
              IF ResendAfter(reply)
              THEN Awaiting(r.route, r.input, r.auth, r.calls + 1, reply, r.at)
              ELSE Done(r.route, r.input, r.auth, r.calls, reply,
                        ForwardEnd(r.route.service, r.route.path, r.route.method, reply),
                        r.at)]
    /\ UNCHANGED <<now, USERS_DB, users_db_initialized, reject_status, issued, warnings, courseVars>>

\* The response has been sent; the slot takes the next request.
Close(c) ==
    /\ conn[c].pc = "done"
    /\ conn' = [conn EXCEPT ![c] = Idle]
    /\ UNCHANGED <<now, USERS_DB, users_db_initialized, reject_status, issued, warnings, courseVars>>

\* Time passes.
Tick ==
    /\ now < MaxTime
    /\ now' = now + 1
    /\ UNCHANGED <<USERS_DB, users_db_initialized, reject_status, conn, issued, warnings, courseVars>>

Next ==
    \/ \E c \in Slots, u \in Usernames, p \in Passwords : Login(c, u, p)
    \/ \E c \in Slots, route \in RequestedRoutes, h \in ClientHeaders, ok \in BOOLEAN :
          ProtectedRequest(c, route, h, ok)
    \/ \E c \in Slots, reply \in RouteReplies : BackendReply(c, reply)
    \/ \E c \in Slots : Close(c)
    \/ Tick

Spec == Init /\ [][Next]_vars

(* ------------- forward_request on arbitrary arguments ------------------ *)

\* Arguments forward_request is called with: registered and unregistered
\* service names, supported and unsupported methods.
ForwardServices == {"student", "course", "billing"}

ForwardPaths == {"/api/students", "/api/courses/1"}

ForwardMethods == {"GET", "POST", "PUT", "DELETE", "PATCH"}

DirectRoute(service, path, method) ==
    [kind |-> "direct", gw_method |-> method, gw_path |-> "/gateway/any",
     service |-> service, path |-> path, method |-> method, has_body |-> FALSE]

\* forward_request(service, path, method) called by a handler.
CallForward(c, service, path, method) ==
    /\ conn[c].pc = "idle"
    /\ EnterForward(c, DirectRoute(service, path, method), NoneVal, NoneVal)
    /\ UNCHANGED <<now, USERS_DB, users_db_initialized, reject_status, issued, warnings, courseVars>>

NextForward ==
    \/ \E s \in ForwardServices, p \in ForwardPaths, m \in ForwardMethods :
          CallForward("c1", s, p, m)
    \/ \E reply \in BackendReplies : BackendReply("c1", reply)
    \/ Close("c1")

SpecForward == Init /\ [][NextForward]_vars

(* --------- create_access_token / get_current_user round trips ---------- *)

Roles == {"admin", "user"}

\* expires_delta: None, or a timedelta of -1 .. MaxTTL minutes
Deltas ==
    {[given |-> FALSE, minutes |-> 0]}
    \cup {[given |-> TRUE, minutes |-> m] : m \in -1..MaxTTL}

\* create_access_token(data, expires_delta) is called and its token kept.
IssueToken(data, expires_delta) ==
    /\ issued' = [token |-> CreateAccessToken(data, expires_delta, now),
                  data |-> data, expires_delta |-> expires_delta, at |-> now]
    /\ UNCHANGED <<now, USERS_DB, users_db_initialized, reject_status, conn, warnings, courseVars>>

\* The kept token is presented on GET /gateway/auth/me.
PresentIssued(c) ==
    /\ issued # NoneVal
    /\ ProtectedRequest(c, MeRoute, [kind |-> "bearer", token |-> issued.token], TRUE)

NextToken ==
    \/ \E data \in [sub : Usernames, role : Roles], d \in Deltas : IssueToken(data, d)
    \/ PresentIssued("c1")
    \/ \E u \in Usernames : Login("c1", u, Raw(RegistryPassword["admin"]))
    \/ Close("c1")
    \/ Tick

SpecToken == Init /\ [][NextToken]_vars

(* ----------------------- calls of the course routes -------------------- *)

\* The bodies POST /api/courses is called with (CourseCreate).
CreateInputs ==
    {[name |-> Lit("Operating Systems"), code |-> Lit("CS401"), credits |-> PyInt(4),
      instructor |-> Lit("Dr. Brown"), description |-> NoneVal]}

\* The bodies PUT /api/courses/{course_id} is called with (CourseUpdate), each
\* with the fields it sets: none, or two of the five (one of them to null).
UpdateInputs ==
    {[fields_set |-> [f \in {} |-> NoneVal]],
     [fields_set |-> [name |-> Lit("Renamed"), description |-> NoneVal]]}

\* The ids the routes are called with: ids of stored, deleted and never stored
\* courses.
CourseIds == 0..(InitialNextId + MaxAdds)

\* POST /api/courses
CreateCourseRoute(course_data) ==
    /\ next_id < InitialNextId + MaxAdds
    /\ LET r == AddCourse(courses, next_id, course_data)
       IN /\ courses' = r.courses
          /\ next_id' = r.next_id
          /\ call' = [op |-> "create", course_id |-> 0, course_data |-> course_data,
                      result |-> r.result, outcome |-> CreateCourseHandler(r.result)]
    /\ UNCHANGED <<freed, gatewayVars>>

\* PUT /api/courses/{course_id}
UpdateCourseRoute(course_id, course_data) ==
    /\ LET r == UpdateCourse(courses, course_id, course_data)
       IN /\ courses' = r.courses
          /\ call' = [op |-> "update", course_id |-> course_id, course_data |-> course_data,
                      result |-> r.result, outcome |-> UpdateCourseHandler(r.result)]
    /\ UNCHANGED <<next_id, freed, gatewayVars>>

\* DELETE /api/courses/{course_id}
DeleteCourseRoute(course_id) ==
    /\ LET r == DeleteCourse(courses, course_id)
       IN /\ courses' = r.courses
          /\ freed' = IF r.result THEN freed \cup {course_id} ELSE freed
          /\ call' = [op |-> "delete", course_id |-> course_id, course_data |-> NoneVal,
                      result |-> r.result, outcome |-> DeleteCourseHandler(r.result)]
    /\ UNCHANGED <<next_id, gatewayVars>>

NextCourses ==
    \/ \E d \in CreateInputs : CreateCourseRoute(d)
    \/ \E i \in CourseIds, d \in UpdateInputs : UpdateCourseRoute(i, d)
    \/ \E i \in CourseIds : DeleteCourseRoute(i)

SpecCourses == Init /\ [][NextCourses]_vars

(* ===================== properties: authentication gate ===================== *)

\* A header with which no Principal can be established at time t: it is
\* missing, or its token is unparsable, signed with another key or expired.
HeaderInvalid(header, t) ==
    \/ header.kind = "missing"
    \/ /\ header.kind = "bearer"
       /\ \/ header.token.kind = "malformed"
          \/ /\ header.token.kind = "jwt"
             /\ \/ header.token.key # SECRET_KEY
                \/ header.token.claims.exp < t

OnProtectedRoute(c) == conn[c].pc # "idle" /\ conn[c].route.kind \in {"me", "forward"}

\* C1: on every protected route an outbound backend call is issued only after
\* get_current_user has returned a Principal in the same request, and a request
\* with a missing Authorization header or a malformed, badly signed or expired
\* token is answered 401 and causes no backend call.
C1_BackendOnlyAfterPrincipal ==
    \A c \in Slots : OnProtectedRoute(c) =>
        /\ conn[c].calls > 0 =>
              /\ conn[c].auth.kind = "return"
              /\ conn[c].auth.value.username \in DOMAIN USERS_DB
        /\ HeaderInvalid(conn[c].input, conn[c].at) =>
              /\ conn[c].pc = "done"
              /\ conn[c].resp.status_code = 401
              /\ conn[c].calls = 0

(* ======================= properties: forward_request ======================= *)

IsDirect(c) == conn[c].pc # "idle" /\ conn[c].route.kind = "direct"

RaisedHttp(c, status_code) ==
    /\ conn[c].pc = "done"
    /\ conn[c].outcome.kind = "raise"
    /\ conn[c].outcome.exc.cls = "HTTPException"
    /\ conn[c].outcome.exc.status_code = status_code
    /\ conn[c].resp.status_code = status_code

\* C2: forward_request with a service name that is not a key of SERVICES never
\* attempts network I/O and always produces a 404 "Service Not Found" outcome
\* that lists the known service names, for every path and method.
C2_UnknownServiceIs404 ==
    \A c \in Slots :
        (IsDirect(c) /\ conn[c].route.service \notin {"student", "course"}) =>
            /\ conn[c].calls = 0
            /\ RaisedHttp(c, 404)
            /\ conn[c].outcome.exc.detail.d.error = Lit("Service Not Found")
            /\ conn[c].outcome.exc.detail.d.available_services = PyList(<<"student", "course">>)

C2_Witness ==
    \E c \in Slots :
        /\ IsDirect(c) /\ conn[c].route.service = "billing" /\ conn[c].route.method = "POST"
        /\ RaisedHttp(c, 404)

\* C3: forward_request with a registered service and a method outside
\* {GET, POST, PUT, DELETE} never attempts network I/O and produces a 405
\* "Method Not Allowed" outcome listing GET, POST, PUT, DELETE, which the
\* surrounding exception handling leaves a 405.
C3_UnsupportedMethodIs405 ==
    \A c \in Slots :
        (/\ IsDirect(c)
         /\ conn[c].route.service \in {"student", "course"}
         /\ conn[c].route.method \notin {"GET", "POST", "PUT", "DELETE"}) =>
            /\ conn[c].calls = 0
            /\ RaisedHttp(c, 405)
            /\ conn[c].outcome.exc.detail.d.error = Lit("Method Not Allowed")
            /\ conn[c].outcome.exc.detail.d.allowed_methods
                   = PyList(<<"GET", "POST", "PUT", "DELETE">>)

C3_Witness ==
    \E c \in Slots :
        /\ IsDirect(c) /\ conn[c].route.service = "course" /\ conn[c].route.method = "PATCH"
        /\ RaisedHttp(c, 405)

\* The status each kind of transport failure is to be answered with.
StatusOfFailure(cls) ==
    CASE cls \in {"ConnectTimeout", "ReadTimeout"} -> 504
      [] cls = "ConnectError" -> 503
      [] cls \in {"ReadError", "RemoteProtocolError", "TooManyRedirects"} -> 502
      [] OTHER -> 500

GotException(c) ==
    conn[c].pc = "done" /\ conn[c].reply # NoneVal /\ conn[c].reply.kind = "exception"

GotResponse(c) ==
    conn[c].pc = "done" /\ conn[c].reply # NoneVal /\ conn[c].reply.kind = "response"

\* C4: for every backend call the kind of transport failure alone determines
\* the status: timeout 504, connection failure 503, any other transport error
\* 502, any other exception 500.
C4_FailureKindDecidesStatus ==
    \A c \in Slots : GotException(c) => RaisedHttp(c, StatusOfFailure(conn[c].reply.cls))

C4_Witness ==
    /\ \E c \in Slots : GotException(c) /\ conn[c].reply.cls = "ConnectTimeout" /\ RaisedHttp(c, 504)

\* C5: for every backend response with status >= 400, whatever its body, the
\* gateway's response carries exactly the backend's status code.
C5_ErrorStatusPreserved ==
    \A c \in Slots :
        (GotResponse(c) /\ conn[c].reply.status_code >= 400) =>
            conn[c].resp.status_code = conn[c].reply.status_code

\* The body a Success outcome is to carry: the parsed JSON of a JSON body, the
\* raw text wrapped in an object otherwise.
SuccessContent(body) ==
    IF body \in {"obj_detail_str", "obj_detail_list", "obj_other", "list", "string"}
    THEN ResponseJson(body).value
    ELSE PyDict([raw |-> Lit(ResponseText(body))])

\* C6: for every backend response with status < 400, forward_request returns a
\* Success outcome with exactly the backend's status code, whose body is the
\* parsed JSON of a JSON body and the raw text wrapped in an object otherwise.
C6_SuccessPreserved ==
    \A c \in Slots :
        (GotResponse(c) /\ conn[c].reply.status_code < 400) =>
            /\ conn[c].outcome.kind = "return"
            /\ conn[c].outcome.value.status_code = conn[c].reply.status_code
            /\ conn[c].outcome.value.content = SuccessContent(conn[c].reply.body)

\* C7: every invocation of forward_request issues at most one outbound call and
\* awaits at most one response: once a reply (a timeout, a connect failure, a
\* transport error, an error status, a success) has arrived, the request is
\* finished and no further call is made for it.
C7_AtMostOneCall ==
    \A c \in Slots :
        /\ conn[c].calls <= 1
        /\ conn[c].pc = "awaiting" => (conn[c].calls = 1 /\ conn[c].reply = NoneVal)
        /\ conn[c].reply # NoneVal => (conn[c].pc = "done" /\ conn[c].calls = 1)

C7_Witness ==
    \E c \in Slots :
        /\ GotException(c) /\ conn[c].reply.cls = "ReadTimeout" /\ conn[c].calls = 1

(* ============================ properties: tokens =========================== *)

PositiveTtl(expires_delta) == expires_delta.given /\ expires_delta.minutes > 0

\* In this step slot c presents, at the very time of its issue, the token that
\* create_access_token produced with a positive ttl.
PresentsIssuedAtOnce(c) ==
    /\ issued # NoneVal
    /\ PositiveTtl(issued.expires_delta)
    /\ issued.at = now
    /\ conn[c].pc = "idle"
    /\ conn'[c].pc = "done"
    /\ conn'[c].input = [kind |-> "bearer", token |-> issued.token]

\* get_current_user accepted the token with the subject and role it was issued for.
YieldsIssuedPrincipal(c) ==
    conn'[c].auth = Ret([username |-> issued.data.sub, role |-> issued.data.role])

\* (username, role) is an entry of the initialised user registry.
InRegistry(data) ==
    /\ users_db_initialized
    /\ data.sub \in DOMAIN USERS_DB
    /\ USERS_DB[data.sub].role = data.role

TokenFailure(header, t) ==
    /\ header.kind = "bearer"
    /\ \/ header.token.kind = "malformed"
       \/ /\ header.token.kind = "jwt"
          /\ \/ header.token.key # SECRET_KEY
             \/ header.token.claims.exp < t
             \/ "sub" \notin DOMAIN header.token.claims

FailedVerification(c) ==
    OnProtectedRoute(c) /\ TokenFailure(conn[c].input, conn[c].at)

GenericAuthFailure(gw_path) ==
    JSONResponse(PyDict([error |-> Lit("Error"),
                         message |-> Lit("Could not validate credentials"),
                         status_code |-> PyInt(401),
                         path |-> Lit(gw_path)]), 401)

\* C9: every token-verification failure (signature mismatch, expiry passed,
\* unparsable token, missing subject) is answered 401 with the same generic
\* "Could not validate credentials" detail, so two requests that differ only in
\* which failure occurred receive the same response.
C9_FailuresIndistinguishable ==
    \A c1, c2 \in Slots :
        FailedVerification(c1) =>
            /\ conn[c1].pc = "done"
            /\ conn[c1].resp = GenericAuthFailure(conn[c1].route.gw_path)
            /\ (FailedVerification(c2) /\ conn[c2].route = conn[c1].route) =>
                   conn[c2].resp = conn[c1].resp

C9_Witness ==
    /\ FailedVerification("c1") /\ FailedVerification("c2")
    /\ conn["c1"].route = conn["c2"].route
    /\ conn["c1"].input.token.kind = "jwt" /\ conn["c2"].input.token.kind = "jwt"
    /\ conn["c1"].input.token.key = SECRET_KEY
    /\ conn["c1"].input.token.claims.exp < conn["c1"].at
    /\ conn["c2"].input.token.key # SECRET_KEY
    /\ conn["c1"].resp.status_code = 401

(* ========================= properties: credentials ========================= *)

\* The (username, password) pairs of the registry, each with its role.
RegistryPairs ==
    {[username |-> "admin", password |-> Raw("admin123"), role |-> "admin"],
     [username |-> "user", password |-> Raw("user123"), role |-> "user"]}

\* C10: authenticate_user returns a Principal exactly for the (username,
\* password) pairs of the registry, with the role of the registry entry; for
\* every other pair, a password equal to the stored hashed_password value
\* included, what it returns is the rejection None.
C10_PrincipalExactlyForRegistryPairs ==
    \A c \in Slots :
        (conn[c].pc = "done" /\ conn[c].route.kind = "login") =>
            LET matches == {e \in RegistryPairs :
                               /\ e.username = conn[c].input.username
                               /\ e.password = conn[c].input.password}
            IN IF matches # {}
               THEN \A e \in matches :
                        conn[c].auth = Ret([username |-> e.username, role |-> e.role])
               ELSE conn[c].auth.kind = "return" => conn[c].auth.value = NoneVal

(* ===================== properties: degraded verification ================== *)

\* The registry holds the plain-text fallback entries.
Degraded ==
    /\ users_db_initialized
    /\ \A u \in DOMAIN USERS_DB : USERS_DB[u].hashed_password[1] = "raw"

\* A login that has been answered.
LoginDone(c) == conn[c].pc = "done" /\ conn[c].route.kind = "login"

\* C11: in degraded (plain-text) mode authenticate_user ends with a Principal
\* or None for every input and never raises; a wrong password for a known
\* username is rejected like an unknown username: None, and login answers 401.
C11_DegradedNeverRaises ==
    \A c \in Slots :
        (LoginDone(c) /\ Degraded) =>
            /\ conn[c].auth.kind = "return"
            /\ (/\ conn[c].input.username \in DOMAIN USERS_DB
                /\ conn[c].input.password
                       # USERS_DB[conn[c].input.username].hashed_password) =>
                   /\ conn[c].auth = Ret(NoneVal)
                   /\ conn[c].resp.status_code = 401

\* The step in which slot c handles a login that reaches the plain-text
\* comparison of authenticate_user (a known username) in degraded mode.
DegradedComparisonStep(c) ==
    /\ conn[c].pc = "idle"
    /\ LoginDone(c)'
    /\ Degraded'
    /\ conn'[c].input.username \in DOMAIN USERS_DB'

\* C12: in degraded mode a warning event is emitted on every call of
\* authenticate_user that exercises the plain-text comparison, the calls after
\* the initialising one included.
C12_WarningOnEveryDegradedCall ==
    [][\A c \in Slots : DegradedComparisonStep(c) => warnings' > warnings]_vars

(* ===================== properties: the registry =========================== *)

\* A header carrying a token signed with the gateway's key and unexpired at t.
HeaderValid(header, t) ==
    /\ header.kind = "bearer"
    /\ header.token.kind = "jwt"
    /\ header.token.key = SECRET_KEY
    /\ ~TokenExpired(header.token.claims.exp, t)

\* GET /gateway/auth/me answered on slot c for a valid token.
MeDoneValid(c) ==
    /\ conn[c].pc = "done"
    /\ conn[c].route.kind = "me"
    /\ HeaderValid(conn[c].input, conn[c].at)

\* C13: GET /gateway/auth/me calls with the same correctly signed, unexpired
\* token get the identical answer in every reachable state of the gateway and
\* under every interleaving with other requests, before any login has been
\* handled included.
C13_MeIsStable ==
    \A c1, c2 \in Slots :
        (/\ MeDoneValid(c1)
         /\ MeDoneValid(c2)
         /\ conn[c1].input = conn[c2].input) =>
            conn[c1].resp = conn[c2].resp

\* The registry holds exactly the entries admin and user, each whole.
RegistryComplete ==
    /\ DOMAIN USERS_DB = {"admin", "user"}
    /\ \A u \in DOMAIN USERS_DB :
          /\ USERS_DB[u].username = u
          /\ USERS_DB[u].role = u
          /\ USERS_DB[u].hashed_password \in
                 {BcryptHash(RegistryPassword[u]), Raw(RegistryPassword[u])}

\* C14: the lazy initialisation of the registry is idempotent and tolerates
\* concurrent first logins: whenever _users_db_initialized is true the registry
\* holds exactly the entries admin and user, every answered login has left it
\* initialised, and once initialised the registry is never modified again.
C14_InitOnceAndWhole ==
    /\ [](users_db_initialized => RegistryComplete)
    /\ [](\A c \in Slots : LoginDone(c) => users_db_initialized)
    /\ [][users_db_initialized =>
             (users_db_initialized' /\ USERS_DB' = USERS_DB)]_vars

\* Two first logins in flight together, both answered.
C14_Witness ==
    /\ LoginDone("c1")
    /\ LoginDone("c2")
    /\ conn["c1"].input # conn["c2"].input
    /\ users_db_initialized
    /\ RegistryComplete

(* ===================== properties: diagnostics ============================ *)

\* The string value str contains the pieces of the string value sub, in order
\* and next to each other.
Includes(str, sub) ==
    \E i \in 1..Len(str.parts) :
        \A j \in 1..Len(sub.parts) :
            /\ i + j - 1 <= Len(str.parts)
            /\ str.parts[i + j - 1] = sub.parts[j]

\* A forwarding request answered after its backend turned out unreachable.
Unreachable(c) ==
    /\ conn[c].pc = "done"
    /\ conn[c].route.kind = "forward"
    /\ conn[c].reply = [kind |-> "exception", cls |-> "ConnectError"]

\* C15: when the backend is unreachable, the 503 body delivered to the client
\* includes the attempted backend address (registry base address + path) in
\* its message.
C15_UnreachableNamesAddress ==
    \A c \in Slots : Unreachable(c) =>
        /\ conn[c].resp.status_code = 503
        /\ conn[c].resp.content.d.message.ty = "str"
        /\ Includes(conn[c].resp.content.d.message,
                    Url(conn[c].route.service, conn[c].route.path))

\* A response body of the shape {error: string, message: string,
\* status_code: int, path: string}.
ErrorBodyShape(content) ==
    /\ content.ty = "dict"
    /\ DOMAIN content.d = {"error", "message", "status_code", "path"}
    /\ content.d.error.ty = "str"
    /\ content.d.message.ty = "str"
    /\ content.d.status_code.ty = "int"
    /\ content.d.path.ty = "str"

\* C16: every error response the gateway sends has a body of exactly the shape
\* {error: string, message: string, status_code: int, path: string}; the
\* message is a string whatever the backend's error body contained.
C16_ErrorBodyShape ==
    \A c \in Slots :
        (conn[c].pc = "done" /\ conn[c].resp.status_code >= 400) =>
            ErrorBodyShape(conn[c].resp.content)

\* C17: every outcome of forward_request that is not Success carries a
\* structured diagnostic payload containing all four of error category, human
\* message, service name and path.
C17_FailureCarriesDiagnostic ==
    \A c \in Slots :
        (IsDirect(c) /\ conn[c].pc = "done" /\ conn[c].outcome.kind = "raise") =>
            /\ conn[c].outcome.exc.cls = "HTTPException"
            /\ conn[c].outcome.exc.detail.ty = "dict"
            /\ {"error", "message", "service", "path"}
                   \subseteq DOMAIN conn[c].outcome.exc.detail.d

(* ===================== properties: the middleware ========================= *)

\* What the pipeline below the middleware produced for the request on slot c.
Downstream(c) == CallNext(conn[c].outcome, conn[c].route.gw_path)

\* C18: LoggingMiddleware.dispatch is a pure observer: the response it returns
\* is the one the downstream pipeline produced, status code and body
\* unchanged, and an exception the downstream pipeline raised is re-raised as
\* the same exception, never suppressed or turned into a response.
C18_DispatchIsObserver ==
    \A c \in Slots : conn[c].pc = "done" =>
        /\ conn[c].passed.kind = Downstream(c).kind
        /\ Downstream(c).kind = "return" =>
              /\ conn[c].passed.value.status_code = Downstream(c).value.status_code
              /\ conn[c].passed.value.content = Downstream(c).value.content
              /\ conn[c].resp = Downstream(c).value
        /\ Downstream(c).kind = "raise" =>
              conn[c].passed.exc = Downstream(c).exc

\* One request whose pipeline raised and one whose backend response passed.
C18_Witness ==
    /\ conn["c1"].pc = "done"
    /\ conn["c1"].passed = Raise(PlainException("JSONDecodeError"))
    /\ conn["c2"].pc = "done"
    /\ conn["c2"].calls = 1
    /\ conn["c2"].passed.kind = "return"
    /\ conn["c2"].passed.value.status_code = 404

\* The outcome entries among the entries of a log.
OutcomeEntries(log) ==
    {i \in 1..Len(log) : log[i].event \in {"Response", "Exception"}}

\* C19: for every request the middleware has recorded the start timestamp and
\* emitted the request entry before the rest of the pipeline runs, and once the
\* pipeline has finished it has emitted exactly one outcome entry after it: a
\* response entry (status, elapsed time) on completion, an exception entry
\* (fault, elapsed time) on an unhandled fault.
C19_OneOutcomeEntry ==
    \A c \in Slots :
        /\ conn[c].pc = "idle" => conn[c].log = <<>>
        /\ conn[c].pc # "idle" =>
              /\ conn[c].at <= now
              /\ Len(conn[c].log) >= 1
              /\ conn[c].log[1].event = "Request"
              /\ conn[c].log[1].method = conn[c].route.gw_method
              /\ conn[c].log[1].path = conn[c].route.gw_path
        /\ conn[c].pc = "awaiting" => OutcomeEntries(conn[c].log) = {}
        /\ conn[c].pc = "done" =>
              /\ OutcomeEntries(conn[c].log) = {2}
              /\ Len(conn[c].log) = 2
              /\ conn[c].log[2].process_time \in 0..(now - conn[c].at)
              /\ IF Downstream(c).kind = "return"
                 THEN /\ conn[c].log[2].event = "Response"
                      /\ conn[c].log[2].status_code = conn[c].resp.status_code
                 ELSE /\ conn[c].log[2].event = "Exception"
                      /\ conn[c].log[2].error = Downstream(c).exc.cls

\* An unhandled fault logged on one slot, a slow backend response on the other.
C19_Witness ==
    /\ conn["c1"].pc = "done"
    /\ conn["c1"].log[2].event = "Exception"
    /\ conn["c2"].pc = "done"
    /\ conn["c2"].log[2].event = "Response"
    /\ conn["c2"].log[2].process_time = 1

(* ===================== properties: principals ============================= *)

\* The step in which slot c takes a request on a protected route.
ProtectedStep(c) ==
    /\ conn[c].pc = "idle"
    /\ conn'[c].pc # "idle"
    /\ conn'[c].route.kind \in {"me", "forward"}

\* A header whose token is correctly signed, unexpired at t and has a subject.
HeaderNames(header, t) ==
    /\ HeaderValid(header, t)
    /\ "sub" \in DOMAIN header.token.claims

\* C20: every Principal get_current_user returns has a username that is a key
\* of the user registry at that moment and the role of that registry entry; a
\* correctly signed, unexpired token whose subject is absent from the registry
\* at that moment (the registry still uninitialised included) is rejected
\* with 401.
C20_PrincipalFromRegistry ==
    [][\A c \in Slots : ProtectedStep(c) =>
          /\ conn'[c].auth.kind = "return" =>
                /\ conn'[c].auth.value.username \in DOMAIN USERS_DB
                /\ conn'[c].auth.value.username = conn'[c].input.token.claims.sub
                /\ conn'[c].auth.value.role
                       = USERS_DB[conn'[c].auth.value.username].role
          /\ (/\ HeaderNames(conn'[c].input, now)
              /\ conn'[c].input.token.claims.sub \notin DOMAIN USERS_DB) =>
                /\ conn'[c].auth.kind = "raise"
                /\ conn'[c].pc = "done"
                /\ conn'[c].calls = 0
                /\ conn'[c].resp.status_code = 401]_vars

\* A token for admin rejected while the registry was uninitialised, and a
\* token claiming the role admin for user answered with the registry's role.
C20_Witness ==
    /\ conn["c1"].pc = "done"
    /\ conn["c1"].route.kind = "me"
    /\ HeaderNames(conn["c1"].input, conn["c1"].at)
    /\ conn["c1"].input.token.claims.sub = "admin"
    /\ conn["c1"].resp.status_code = 401
    /\ conn["c2"].pc = "done"
    /\ conn["c2"].route.kind = "me"
    /\ HeaderNames(conn["c2"].input, conn["c2"].at)
    /\ conn["c2"].input.token.claims.role = "admin"
    /\ conn["c2"].auth = Ret([username |-> "user", role |-> "user"])

(* ===================== properties: the course store ======================= *)

\* The ids of the stored courses.
StoredIds == {courses[i].id : i \in 1..Len(courses)}

\* C21: after any sequence of add_course, update_course and delete_course all
\* stored courses have pairwise distinct ids, every stored id is strictly less
\* than next_id, next_id never decreases, and an id freed by delete_course is
\* never the id of a course stored later.
C21_IdsDistinctNeverReused ==
    /\ [](\A i, j \in 1..Len(courses) : i # j => courses[i].id # courses[j].id)
    /\ [](\A i \in 1..Len(courses) : courses[i].id < next_id)
    /\ [](StoredIds \cap freed = {})
    /\ [][next_id' >= next_id]_vars

\* A course added after a course has been deleted.
C21_Witness ==
    /\ freed # {}
    /\ call # NoneVal
    /\ call.op = "create"
    /\ call.result.id \in StoredIds
    /\ call.result.id = next_id - 1

\* The call of this step is an update or a delete of an id absent from the store.
AbsentIdStep(op) ==
    /\ call' # NoneVal
    /\ call'.op = op
    /\ call'.course_id \notin StoredIds

\* The call of this step is an update of a stored id.
StoredIdUpdateStep ==
    /\ call' # NoneVal
    /\ call'.op = "update"
    /\ call'.course_id \in StoredIds

\* C22: update_course and delete_course on an id that is not in the store leave
\* courses and next_id unchanged and report not-found (None / False, answered
\* 404); update_course on a stored id changes only the fields the update set,
\* the id, the unset fields and every other course staying as they were.
C22_FrameOfUpdateAndDelete ==
    [][/\ AbsentIdStep("update") =>
             /\ courses' = courses /\ next_id' = next_id
             /\ call'.result = NoneVal
             /\ call'.outcome = CourseNotFound
       /\ AbsentIdStep("delete") =>
             /\ courses' = courses /\ next_id' = next_id
             /\ call'.result = FALSE
             /\ call'.outcome = CourseNotFound
       /\ StoredIdUpdateStep =>
             /\ next_id' = next_id
             /\ Len(courses') = Len(courses)
             /\ \A i \in 1..Len(courses) :
                   IF courses[i].id # call'.course_id
                   THEN courses'[i] = courses[i]
                   ELSE /\ courses'[i].id = courses[i].id
                        /\ call'.result = courses'[i]
                        /\ \A f \in UpdateFields :
                              courses'[i][f] =
                                  IF f \in DOMAIN call'.course_data.fields_set
                                  THEN call'.course_data.fields_set[f]
                                  ELSE courses[i][f]]_vars

\* An update of a deleted id answered 404, in a store where an earlier update
\* renamed a course and left its credits alone.
C22_Witness ==
    /\ call # NoneVal
    /\ call.op = "update"
    /\ call.course_id \in freed
    /\ DOMAIN call.course_data.fields_set # {}
    /\ call.outcome = CourseNotFound
    /\ \E i \in 1..Len(courses) :
          /\ courses[i].name = Lit("Renamed")
          /\ courses[i].credits = InitialCourses[courses[i].id].credits

====
